---- MODULE Spec2Model ----
(***************************************************************************)
(* Model of the chat-history harvesting engine of src/background.js:        *)
(* autoScrollDiscordHistory (the acquisition loop, its harvest and its      *)
(* header capture), mergeBufferedMessagesIntoDiscordPage (the reassembly)   *)
(* and captureChatHistory (the orchestrator in the service worker).         *)
(*                                                                         *)
(* JavaScript runs one task at a time: the code between two awaits is one   *)
(* atomic action.  The renderer (the page's own scripts) acts while the     *)
(* engine is suspended, so every action that resumes from an await first    *)
(* draws the document the renderer left behind (the mounted children, the   *)
(* scroll position, the clock) and then runs the code up to the next await. *)
(***************************************************************************)
EXTENDS Integers, Sequences, FiniteSets, TLC

(***************************************************************************)
(* Bounds of the model.                                                     *)
(***************************************************************************)
\* Largest number of children the renderer keeps mounted at once.
MaxMounted == 2
\* Date.now() advances by at most this many ticks during one run.
MaxClock == 1

(***************************************************************************)
(* Integers.  The program's order values are BigInts around 10^12 .. 10^16, *)
(* beyond the integers of the model checker, so a value is written          *)
(* [hi, lo] = Base(hi) + lo, with the bases the landmarks the code compares *)
(* against, in ascending order, and lo far smaller than the gap between two *)
(* bases:                                                                   *)
(*   hi = -1  negative numbers (lo is the number itself)                    *)
(*   hi = 0   0                                                             *)
(*   hi = 1   946684800000, 2000-01-01               (lines 347, 1433)      *)
(*   hi = 2   1420070400000, the snowflake epoch     (lines 337, 1465)      *)
(*   hi = 3   Date.now() when the document was loaded                       *)
(*   hi = 4   that + 86400000, one day later         (lines 338, 1466)      *)
(*   hi = 5   2^53, the first integer whose successor is no double          *)
(***************************************************************************)
Num(h, l) == [hi |-> h, lo |-> l]

NoNum == [hi |-> -2, lo |-> 0]

NumLess(a, b) == a.hi < b.hi \/ (a.hi = b.hi /\ a.lo < b.lo)

Zero == Num(0, 0)

Year2000 == Num(1, 0)

\* Date.now() + idx, Date.now() + 86400000
DateNowPlus(clk, idx) == Num(3, clk + idx)

DateNowPlusDay(clk) == Num(4, clk)

\* Number(bigint): exact below 2^53; in [2^53, 2^54) the doubles are the even
\* integers and the conversion rounds to the nearest, ties to the even mantissa.
ToNumber(n) ==
  IF n.hi < 5 THEN n
  ELSE IF n.lo % 2 = 0 THEN n
  ELSE IF (n.lo + 1) % 4 = 0 THEN Num(n.hi, n.lo + 1)
  ELSE Num(n.hi, n.lo - 1)

(***************************************************************************)
(* The document.  An element is named by what its outerHTML is: two         *)
(* elements with the same attributes and content are the same name.  Attr   *)
(* gives what the classifier reads from an element:                         *)
(*   id    data-list-item-id || id || data-message-id ("" when none)        *)
(*   lby   aria-labelledby ("" when none)                                   *)
(*   text  textContent, shorter than 40 characters                          *)
(*   media whether an img, video, iframe or embed is inside                 *)
(*   time  Date.parse of the descendant time[datetime] (NoNum when none)    *)
(*   snow  (id >> 22) + epoch of the first run of 17 or more digits of id   *)
(*   lit   the first run of 6 or more digits of id, read as an integer      *)
(*   cls   className                                                        *)
(***************************************************************************)
Header == "hdr"

Buffer == "buf"

El(id, text, time, snow, lit, cls) ==
  [id |-> id, lby |-> "", text |-> text, media |-> FALSE,
   time |-> time, snow |-> snow, lit |-> lit, cls |-> cls]

Attr(el) ==
  CASE el = "m1"  -> El("id1", "a", Num(2, 1), NoNum, NoNum, "message")
    [] el = "m2"  -> El("id2", "b", Num(2, 2), NoNum, NoNum, "message")
    [] el = "m2e" -> El("id2", "b (edited)", Num(2, 2), NoNum, NoNum, "message")
    [] el = "m3"  -> El("id3", "c", Num(2, 1), NoNum, NoNum, "message")
    [] el = "m4"  -> El("id4", "d", NoNum, NoNum, Num(5, 1), "message")
    [] el = "m5"  -> El("id5", "e", NoNum, NoNum, Num(5, 0), "message")
    [] el = "m6"  -> El("id1", "f", Num(2, 3), NoNum, NoNum, "message")
    [] el = "m7"  -> El("", "g", Num(2, 4), NoNum, NoNum, "message")
    [] el = "m8"  -> El("id8", "h", Num(2, 5), NoNum, NoNum, "message")
    [] el = "m9"  -> El("id9", "i", Num(2, 6), NoNum, NoNum, "message")
    [] el = "m10" -> El("id10", "j", Num(2, 7), Num(2, 8), Num(5, 3), "message")
    [] el = "m11" -> El("id11", "k", NoNum, Num(4, 0), Num(5, 4), "message")
    [] el = "m12" -> El("id12", "l", NoNum, Num(4, 1), Num(5, 5), "message")
    [] el = "m13" -> El("id13", "m", NoNum, NoNum, Num(0, 5), "message")
    [] el = "m14" -> El("id14", "n", Num(-1, 3), NoNum, NoNum, "message")
    [] el = "ph"  -> El("", "", NoNum, NoNum, NoNum, "skeleton")
    [] OTHER      -> El("", "", NoNum, NoNum, NoNum, "")

\* The children of the message container in document order, oldest first; the
\* renderer mounts a window of them.
History == <<"hdr", "ph", "m1", "m8", "m9", "m3", "m2", "m2e", "m6", "m7", "m5", "m4",
            "m10", "m11", "m12", "m13", "m14">>

RECURSIVE Restrict(_, _)
Restrict(seq, S) ==
  IF seq = <<>> THEN <<>>
  ELSE IF Head(seq) \in S THEN <<Head(seq)>> \o Restrict(Tail(seq), S)
  ELSE Restrict(Tail(seq), S)

Range(seq) == {seq[i] : i \in 1..Len(seq)}

\* The windows the renderer can leave mounted: at most MaxMounted items of the
\* source, never two renderings of one item, with or without the header above.
Doms(source) ==
  {Restrict(History, S \cup H) :
     S \in {T \in SUBSET source : Cardinality(T) <= MaxMounted /\ ~({"m2", "m2e"} \subseteq T)},
     H \in {{}, {Header}}}

(***************************************************************************)
(* ElementClassifier (lines 308-371).                                       *)
(***************************************************************************)
\* selectVisible: the items of the list; the header and the spacer are no items.
selectVisible(dom) == Restrict(dom, Range(dom) \ {Header, Buffer})

countMessages(dom) == Len(selectVisible(dom))

getKey(el, idx) ==
  IF Attr(el).id # "" THEN Attr(el).id
  ELSE IF Attr(el).lby # "" THEN Attr(el).lby
  ELSE "sf-key-" \o ToString(idx) \o "-" \o Attr(el).text

\* An extraction that tries the identifier before the time element.  C32 does
\* not hold of it.
getOrderFromElIdFirst(el, idx, clk) ==
  LET a == Attr(el) IN
  IF a.snow # NoNum /\ NumLess(Zero, a.snow) /\ NumLess(a.snow, DateNowPlusDay(clk))
    THEN a.snow
  ELSE IF a.lit # NoNum /\ NumLess(Year2000, a.lit) THEN a.lit
  ELSE IF a.time # NoNum /\ NumLess(Zero, a.time) THEN a.time
  ELSE DateNowPlus(clk, idx)

getOrderFromEl(el, idx, clk) ==
  LET a == Attr(el) IN
  IF a.time # NoNum /\ NumLess(Zero, a.time) THEN a.time
  ELSE IF a.snow # NoNum /\ NumLess(Zero, a.snow) /\ NumLess(a.snow, DateNowPlusDay(clk))
    THEN a.snow
  ELSE IF a.lit # NoNum /\ NumLess(Year2000, a.lit) THEN a.lit
  ELSE DateNowPlus(clk, idx)

ClassIsPlaceholder(cls) == cls \in {"skeleton", "placeholder", "spinner", "loading"}

isPlaceholder(el) ==
  \/ ClassIsPlaceholder(Attr(el).cls)
  \/ (Attr(el).text = "" /\ ~Attr(el).media)

isAtTopOfChat(dom) == Header \in Range(dom)

(***************************************************************************)
(* MessageCache and harvest (lines 412-418, 436-634).  captured is the Map  *)
(* window.__sf_capturedMessagesCache as the sequence of its values in       *)
(* insertion order, which is the order Map.values() yields.  A record keeps *)
(* order as the decimal string of a BigInt; BigInt(order) gives the same    *)
(* integer back, so the model keeps the integer.                            *)
(***************************************************************************)
\* JavaScript evaluates an argument once, before the call: Bound({e : x \in {x0}})
\* is e with x the value of the argument x0.
Bound(S) == CHOOSE v \in S : TRUE

Rec(key, html, seq, order) == [key |-> key, html |-> html, seq |-> seq, order |-> order]

Keys(capt) == {capt[i].key : i \in 1..Len(capt)}

Has(capt, key) == key \in Keys(capt)

NoEl == "null"

\* Map.prototype.set: a new key is appended, a known key keeps its place and
\* takes the new value.
MapSet(capt0, rec) ==
  Bound({
    IF Has(capt, rec.key)
    THEN [i \in 1..Len(capt) |-> IF capt[i].key = rec.key THEN rec ELSE capt[i]]
    ELSE Append(capt, rec)
    : capt \in {capt0}})

\* One node of nodes.forEach (lines 445-619).  acc carries the cache, seq and
\* the pass's own counters and pointers.  Lines 455-459, the topmost visible:
Sight(acc0, el, order) ==
  Bound({
    IF ~isPlaceholder(el) /\ (acc.topVisOrder = NoNum \/ NumLess(order, acc.topVisOrder))
    THEN [acc EXCEPT !.topVisOrder = order, !.topVis = el]
    ELSE acc
    : acc \in {acc0}})

\* The insertion of lines 600-614 without the guard of line 461: every sighting
\* sets the key again.  C1 does not hold of a harvest that inserts like this.
InsertUnguarded(acc, el, key, order) ==
  [acc EXCEPT !.captured = MapSet(@, Rec(key, el, acc.seq, order)),
              !.seq = @ + 1,
              !.newMessages = @ + 1]

\* The insertion without the test of line 463: a placeholder whose key is new is
\* inserted like an item.  C12 does not hold of a harvest that inserts like this.
InsertPlaceholders(acc, el, key, order) ==
  IF key = "" \/ Has(acc.captured, key) THEN acc
  ELSE [acc EXCEPT !.captured = MapSet(@, Rec(key, el, acc.seq, order)),
                   !.seq = @ + 1,
                   !.newMessages = @ + 1]

\* Lines 461-614, the guard and the insertion:
Insert(acc0, el, key, order) ==
  Bound({
    IF key = "" \/ Has(acc.captured, key) \/ isPlaceholder(el) THEN acc
    ELSE [acc EXCEPT !.captured = MapSet(@, Rec(key, el, acc.seq, order)),
                     !.seq = @ + 1,
                     !.newMessages = @ + 1,
                     !.topNewOrder = IF @ = NoNum \/ NumLess(order, @) THEN order ELSE @,
                     !.topNew = IF acc.topNewOrder = NoNum \/ NumLess(order, acc.topNewOrder)
                                THEN el ELSE @]
    : acc \in {acc0}})

\* Where the processing of a node throws: "classify" in getKey or
\* getOrderFromEl (lines 452-453), "clone" in el.cloneNode(true) (line 465),
\* "" nowhere.
Raises(el) ==
  CASE el = "m8" -> "classify"
    [] el = "m9" -> "clone"
    [] OTHER     -> ""

\* A node whose cloning throws after the counter was advanced.  C27 does not
\* hold of a harvest that processes a node like this.
NodeCountedBeforeClone(acc, el, idx, clk) ==
  IF Raises(el) = "classify" THEN acc
  ELSE IF Raises(el) = "clone"
    THEN [Sight(acc, el, getOrderFromEl(el, idx, clk)) EXCEPT !.seq = @ + 1]
  ELSE Insert(Sight(acc, el, getOrderFromEl(el, idx, clk)),
              el, getKey(el, idx), getOrderFromEl(el, idx, clk))

\* The try of lines 446-614 and its catch of lines 615-618 for one node: a throw
\* leaves what the statements before it did, and the pass goes on.  A cached
\* key returns at line 461, before the clone.
Node(acc, el, idx, clk) ==
  IF Raises(el) = "classify" THEN acc
  ELSE IF Raises(el) = "clone" /\ ~Has(acc.captured, getKey(el, idx))
    THEN Sight(acc, el, getOrderFromEl(el, idx, clk))
  ELSE Insert(Sight(acc, el, getOrderFromEl(el, idx, clk)),
              el, getKey(el, idx), getOrderFromEl(el, idx, clk))

RECURSIVE HarvestFrom(_, _, _, _)
HarvestFrom(nodes, i, clk, acc0) ==
  Bound({
    IF i > Len(nodes) THEN acc
    ELSE HarvestFrom(nodes, i + 1, clk, Node(acc, nodes[i], i - 1, clk))
    : acc \in {acc0}})

\* What harvest() leaves and returns: the cache, seq, the number of records
\* inserted and the pointer (topmostNewMessage || topmostVisibleMessage).
HarvestResult(acc0) ==
  Bound({
    [captured |-> acc.captured, seq |-> acc.seq, newMessages |-> acc.newMessages,
     topmostNewMessage |-> IF acc.topNew # NoEl THEN acc.topNew ELSE acc.topVis]
    : acc \in {acc0}})

harvest(capt, seq, dom, clk) ==
  HarvestResult(HarvestFrom(selectVisible(dom), 1, clk,
                  [captured |-> capt, seq |-> seq, newMessages |-> 0,
                   topNew |-> NoEl, topNewOrder |-> NoNum,
                   topVis |-> NoEl, topVisOrder |-> NoNum]))

(***************************************************************************)
(* captureProfileHeader of the acquisition (lines 775-934), the part after  *)
(* its wait: the header element is found when it is mounted, and cached     *)
(* under its own key unless that key is cached already.                     *)
(***************************************************************************)
ProfileKey == "sf-profile-header"

\* A header record that takes the time of its capture as its order, like an
\* item without a timestamp.  C22 does not hold of a capture that caches this.
HeaderRecOrderedByCapture == Rec(ProfileKey, Header, -1, DateNowPlus(0, 0))

HeaderRec == Rec(ProfileKey, Header, -1, Zero)

captureProfileHeader(capt, dom) ==
  IF Header \in Range(dom) /\ ~Has(capt, ProfileKey) THEN MapSet(capt, HeaderRec) ELSE capt

(***************************************************************************)
(* State.                                                                   *)
(*   world      the page: "chat" has a scrollable message container,        *)
(*              "short" has a container that does not overflow and no other *)
(*              scrollable element, "brief" is a short page on which every  *)
(*              item stays mounted, "blank" has neither; and the source     *)
(*              the renderer mounts windows of                              *)
(*   alive      the document exists (the tab is neither closed nor gone     *)
(*              elsewhere)                                                  *)
(*   dom        the children of the message container, in document order    *)
(*   scrollTop  scroller.scrollTop                                          *)
(*   clock      Date.now() - the time the document was loaded               *)
(*   captured   window.__sf_capturedMessagesCache                           *)
(*   records    window.__sf_capturedMessagesRecords (its html column is     *)
(*              window.__sf_capturedMessages)                               *)
(*   ses        per capture, the locals of its autoScrollDiscordHistory     *)
(*   orch       per capture, the locals of its captureChatHistory           *)
(*   lost       the cache the document held when it was torn down           *)
(*   consoleLog the function that console.log is in the document            *)
(*   media      the img and source elements of the page and the export of    *)
(*              lines 236-257, looked at on its own                         *)
(*   wq         the closure of one waitForQuiet call, looked at on its own  *)
(*              under QuietSpec                                             *)
(***************************************************************************)
VARIABLES world, alive, dom, scrollTop, clock, captured, records, ses, orch, lost, wq,
          consoleLog, media

vars == <<world, alive, dom, scrollTop, clock, captured, records, ses, orch, lost, wq,
          consoleLog, media>>

Captures == {"c1", "c2"}

\* The scroll positions the renderer leaves: at the top (<= 1) or far from it.
\* A page without a scrollable element stays at 0.
ScrollChoices(page) == IF page = "chat" THEN {0, 100} ELSE {0}

\* A "brief" page holds a conversation so short that nothing is unmounted: the
\* header and the items that have arrived so far, oldest first.
BriefDoms(source) ==
  {SubSeq(Restrict(History, source \cup {Header}), 1, n) : n \in 2..(Cardinality(source) + 1)}

PageDoms(w) ==
  IF w.page = "blank" THEN {<<>>}
  ELSE IF w.page = "brief" THEN BriefDoms(w.source)
  ELSE Doms(w.source)

\* A capture starts later than the capture before it.
Later(clk) == IF clk < MaxClock THEN clk + 1 ELSE clk

\* The arguments of autoScrollDiscordHistory are maxMessages (0: no limit),
\* settleMs, which only paces the waits, maxNoNew and untilTop.

(***************************************************************************)
(* ScrollDriver (lines 283-300).  findScroller ends with                    *)
(* `return document.documentElement`: it never returns null.                *)
(***************************************************************************)
findScroller(page) == IF page = "chat" THEN "scroller" ELSE "documentElement"

\* Array.prototype.sort is stable.  The comparators of the program compare a
\* number computed from each record, so a sort is given the records with their
\* numbers: insertion sort, a record goes behind the records whose number is
\* not greater than its own.
RECURSIVE InsertSorted(_, _)
InsertSorted(sorted0, x) ==
  Bound({
    IF sorted = <<>> THEN <<x>>
    ELSE IF NumLess(x.at, sorted[Len(sorted)].at)
         THEN Append(InsertSorted(SubSeq(sorted, 1, Len(sorted) - 1), x), sorted[Len(sorted)])
         ELSE Append(sorted, x)
    : sorted \in {sorted0}})

RECURSIVE SortFrom(_, _, _)
SortFrom(keyed, i, acc0) ==
  Bound({
    IF i > Len(keyed) THEN acc ELSE SortFrom(keyed, i + 1, InsertSorted(acc, keyed[i]))
    : acc \in {acc0}})

Unkeyed(out0) ==
  Bound({
   [i \in 1..Len(out) |-> out[i].rec]
    : out \in {out0}})

StableSort(keyed0) ==
  Bound({
   Unkeyed(SortFrom(keyed, 1, <<>>))
    : keyed \in {keyed0}})

\* The final sort (lines 1205-1213) compares BigInt(a.order) with BigInt(b.order).
SortByOrder(recs0) ==
  Bound({
    StableSort([i \in 1..Len(recs) |-> [at |-> recs[i].order, rec |-> recs[i]]])
    : recs \in {recs0}})

(***************************************************************************)
(* AcquisitionLoop (lines 410-1234).  A block takes s, the locals of the    *)
(* invocation together with the window state it writes (captured, records,  *)
(* scrollTop), the document dom and clock clk it resumes in, and what the   *)
(* scroll calls it reaches do: tp, a call inside an inner try throws; tu, a *)
(* call outside any inner try throws.  It gives s at the next await or at   *)
(* the return.                                                              *)
(***************************************************************************)
Idle ==
  [pc |-> "idle", ret |-> "", cfg |-> [maxMessages |-> 0, maxNoNew |-> 0, untilTop |-> FALSE],
   seq |-> 0, prevCachedCount |-> 0, noChangeCount |-> 0,
   topCheckCount |-> 0, noNew |-> 0, lastCount |-> 0, isAtTop |-> FALSE,
   prevScrollTop |-> 0, currentScrollTop |-> 0, newMessages |-> 0, now |-> 0,
   stop |-> "", result |-> [ok |-> FALSE, loaded |-> 0, error |-> ""],
   bgHeader |-> FALSE, originalConsoleLog |-> ""]

\* The functions console.log can be: the page's own, or the consoleInterceptor
\* of invocation p (lines 401-407).
OriginalLog == "log"

Interceptor(p) == "consoleInterceptor of " \o p

\* Lines 400-408, which run before the async body: the invocation keeps what
\* console.log is and puts its interceptor in its place.
Intercepted(s0, p) ==
  Bound({
    [s EXCEPT !.originalConsoleLog = s.consoleLog, !.consoleLog = Interceptor(p)]
    : s \in {s0}})

LimitReached(s) == s.cfg.maxMessages > 0 /\ Len(s.captured) >= s.cfg.maxMessages

\* The locals declared inside the loop body are gone when the body is left.
Spent(s0) ==
  Bound({
    [s EXCEPT !.isAtTop = FALSE, !.prevScrollTop = 0, !.currentScrollTop = 0,
              !.newMessages = 0, !.now = 0]
    : s \in {s0}})

\* Once the loop is left its counters are read no more.
Leave(s0, why) ==
  Bound({
    [Spent(s) EXCEPT !.stop = why, !.prevCachedCount = 0, !.noChangeCount = 0,
                     !.topCheckCount = 0, !.noNew = 0, !.lastCount = 0]
    : s \in {s0}})

\* The invocation returns r: its locals are gone, the window state stays.
Return(s0, r) ==
  Bound({
    [f \in DOMAIN s |->
       IF f \in {"captured", "records", "scrollTop", "stop", "bgHeader"} THEN s[f]
       ELSE IF f = "consoleLog" THEN s.originalConsoleLog
       ELSE IF f = "pc" THEN "returned"
       ELSE IF f = "result" THEN r
       ELSE Idle[f]]
    : s \in {s0}})

\* catch (error) { return { ok: false, error: String(error) } }  (lines 1227-1229)
Fail(s) == Return(s, [ok |-> FALSE, loaded |-> 0, error |-> "Error"])

\* harvest() and its mirror of the cache into the record list (lines 621-623)
Harvested(s0, h) ==
  Bound({
    [s EXCEPT !.captured = h.captured, !.records = h.captured, !.seq = h.seq]
    : s \in {s0}})

\* await captureProfileHeader(): scroller.scrollTop = 0, then wait(800)
CallHeader(s0, ret) ==
  Bound({
    [s EXCEPT !.pc = "hdr_wait", !.ret = ret, !.scrollTop = 0]
    : s \in {s0}})

\* After the loop, lines 1193-1198: harvest, then scroller.scrollTop = 0 outside
\* any inner try, then wait(500).
ToTop(s0, tu) ==
  Bound({
   IF tu THEN Fail(s) ELSE [s EXCEPT !.scrollTop = 0, !.pc = "done_wait1"]
    : s \in {s0}})

AfterLoop(s0, why, d, clk, tu) ==
  Bound({
    ToTop(Harvested(Leave(s, why), harvest(s.captured, s.seq, d, clk)), tu)
    : s \in {s0}})

\* The head of the loop, lines 950-991.
LoopHead(s0, d, clk, tu) ==
  Bound({
    IF LimitReached(s) THEN AfterLoop(s, "limit", d, clk, tu)
    ELSE IF s.scrollTop <= 1 \/ isAtTopOfChat(d)
    THEN CallHeader([Spent(s) EXCEPT !.prevScrollTop = s.scrollTop, !.isAtTop = TRUE], "loop")
    ELSE [Spent(s) EXCEPT !.prevScrollTop = s.scrollTop, !.pc = "quiet_wait"]
    : s \in {s0}})

\* A stop policy that applies the test of line 1187 in either mode.  C25 does
\* not hold of a loop that ends its iterations like this.
ContinueEitherMode(s, d, clk, tu) ==
  IF LimitReached(s) THEN AfterLoop(s, "limit", d, clk, tu)
  ELSE IF s.noNew >= s.cfg.maxNoNew THEN AfterLoop(s, "nogrowth", d, clk, tu)
  ELSE LoopHead(s, d, clk, tu)

\* Lines 1124-1190, after the counters of the iteration are updated.
Continue(s0, d, clk, tu) ==
  Bound({
    IF LimitReached(s) THEN AfterLoop(s, "limit", d, clk, tu)
    ELSE IF s.cfg.untilTop THEN
      IF s.isAtTop
      THEN CallHeader([Spent(s) EXCEPT !.topCheckCount = s.topCheckCount + 1,
                                       !.newMessages = s.newMessages], "confirm")
      ELSE IF s.noChangeCount >= 3 /\ s.currentScrollTop - s.prevScrollTop < 5
                                   /\ s.prevScrollTop - s.currentScrollTop < 5
        THEN IF tu THEN Fail([s EXCEPT !.topCheckCount = 0])
             ELSE [Spent(s) EXCEPT !.topCheckCount = 0, !.scrollTop = 0, !.pc = "stuck_top_wait"]
        ELSE LoopHead([s EXCEPT !.topCheckCount = 0], d, clk, tu)
    ELSE IF s.noNew >= s.cfg.maxNoNew THEN AfterLoop(s, "nogrowth", d, clk, tu)
    ELSE LoopHead(s, d, clk, tu)
    : s \in {s0}})

\* The tail of an iteration, lines 1069-1122.
IterTail(s0, d, clk, tu) ==
  Bound({
    IF s.now <= s.lastCount /\ s.newMessages = 0
    THEN Continue([s EXCEPT !.prevCachedCount = Len(s.captured),
                            !.noNew = IF @ < s.cfg.maxNoNew THEN @ + 1 ELSE @],
                  d, clk, tu)
    ELSE Continue([s EXCEPT !.prevCachedCount = Len(s.captured), !.noNew = 0,
                            !.lastCount = s.now],
                  d, clk, tu)
    : s \in {s0}})

\* catch (bumpErr), lines 1046-1064.
BumpCatch(s0, d, clk, tu) ==
  Bound({
    IF s.noChangeCount >= 5 THEN
      IF isAtTopOfChat(d) THEN
        IF tu THEN Fail(s)
        ELSE [s EXCEPT !.scrollTop = 0, !.pc = "catch_top_wait"]
      ELSE AfterLoop(s, "stuck", d, clk, tu)
    ELSE IterTail(s, d, clk, tu)
    : s \in {s0}})

\* Lines 1014-1020: the bump, a scroll inside the try of line 1015.
Bump(s0, d, clk, tp, tu) ==
  Bound({
    IF s.noChangeCount >= 2 THEN
      IF tp THEN BumpCatch(s, d, clk, tu)
      ELSE [s EXCEPT !.scrollTop = 0, !.pc = "bump_wait"]
    ELSE IterTail(s, d, clk, tu)
    : s \in {s0}})

\* Lines 1010-1068, the stuck check.
StuckCheck(s0, d, clk, tp, tu) ==
  Bound({
    IF Len(s.captured) = s.prevCachedCount /\ ~s.isAtTop
    THEN Bump([s EXCEPT !.noChangeCount = @ + 1], d, clk, tp, tu)
    ELSE IterTail([s EXCEPT !.noChangeCount = 0], d, clk, tu)
    : s \in {s0}})

\* After waitForQuiet, lines 991-1009.
QuietHarvested(s0, h, d) ==
  Bound({
    [Harvested(s, h) EXCEPT !.newMessages = h.newMessages, !.now = countMessages(d),
                            !.currentScrollTop = s.scrollTop]
    : s \in {s0}})

QuietResume(s0, d, clk, tp, tu) ==
  Bound({
    StuckCheck(QuietHarvested(s, harvest(s.captured, s.seq, d, clk), d), d, clk, tp, tu)
    : s \in {s0}})

\* A bump without the test of line 1027: a failed bump always goes on with the
\* iteration.  C24 does not hold of a loop that bumps like this.
BumpHarvestedUnbounded(s, newMessages, d, clk, tp, tu) ==
  IF newMessages > 0 THEN IterTail([s EXCEPT !.noChangeCount = 0], d, clk, tu)
  ELSE IterTail(s, d, clk, tu)

\* After the bump's wait(500), lines 1021-1045.
BumpHarvested(s0, newMessages, d, clk, tp, tu) ==
  Bound({
    IF newMessages > 0 THEN IterTail([s EXCEPT !.noChangeCount = 0], d, clk, tu)
    ELSE IF s.noChangeCount >= 5 THEN
      IF isAtTopOfChat(d) THEN
        IF tp THEN BumpCatch(s, d, clk, tu)
        ELSE [s EXCEPT !.scrollTop = 0, !.pc = "bump_top_wait"]
      ELSE AfterLoop(s, "stuck", d, clk, tu)
    ELSE IterTail(s, d, clk, tu)
    : s \in {s0}})

BumpResume(s0, d, clk, tp, tu) ==
  Bound({
    BumpHarvested(Harvested(s, harvest(s.captured, s.seq, d, clk)),
                  harvest(s.captured, s.seq, d, clk).newMessages, d, clk, tp, tu)
    : s \in {s0}})

\* After wait(500) at the top inside the bump's try, lines 1035-1038.
BumpTopHarvested(s0, d, clk, tp, tu) ==
  Bound({
    IF tp THEN BumpCatch(s, d, clk, tu)
    ELSE [Leave(s, "top") EXCEPT !.scrollTop = 0, !.pc = "break_wait"]
    : s \in {s0}})

BumpTopResume(s0, d, clk, tp, tu) ==
  Bound({
    BumpTopHarvested(Harvested(s, harvest(s.captured, s.seq, d, clk)), d, clk, tp, tu)
    : s \in {s0}})

\* After wait(500) at the top inside catch (bumpErr), lines 1055-1058.
CatchTopHarvested(s0, tu) ==
  Bound({
    IF tu THEN Fail(s)
    ELSE [Leave(s, "top") EXCEPT !.scrollTop = 0, !.pc = "break_wait"]
    : s \in {s0}})

CatchTopResume(s0, d, clk, tu) ==
  Bound({
    CatchTopHarvested(Harvested(s, harvest(s.captured, s.seq, d, clk)), tu)
    : s \in {s0}})

\* After the at-top wait(1000), lines 1136-1147.
ConfirmHarvested(s0, newMessages, d, clk, tu) ==
  Bound({
    IF newMessages > 0
    THEN LoopHead([s EXCEPT !.topCheckCount = 0, !.noNew = 0, !.lastCount = countMessages(d)],
                  d, clk, tu)
    ELSE IF s.topCheckCount >= 2 THEN [s EXCEPT !.pc = "final_wait"]
    ELSE LoopHead(s, d, clk, tu)
    : s \in {s0}})

ConfirmResume(s0, d, clk, tu) ==
  Bound({
    ConfirmHarvested(Harvested(s, harvest(s.captured, s.seq, d, clk)),
                     harvest(s.captured, s.seq, d, clk).newMessages, d, clk, tu)
    : s \in {s0}})

\* After the final check's wait(1000), lines 1148-1163.
FinalHarvested(s0, newMessages, d, clk, tu) ==
  Bound({
    IF countMessages(d) = s.lastCount /\ newMessages = 0
    THEN IF tu THEN Fail(s)
         ELSE [Leave(s, "top") EXCEPT !.scrollTop = 0, !.pc = "break_wait"]
    ELSE LoopHead([s EXCEPT !.lastCount = countMessages(d), !.noNew = 0, !.topCheckCount = 0],
                  d, clk, tu)
    : s \in {s0}})

FinalResume(s0, d, clk, tu) ==
  Bound({
    FinalHarvested(Harvested(s, harvest(s.captured, s.seq, d, clk)),
                   harvest(s.captured, s.seq, d, clk).newMessages, d, clk, tu)
    : s \in {s0}})

\* After the wait(1500) of "appears stuck", lines 1174-1183.
StuckTopHarvested(s0, newMessages, d, clk, tu) ==
  Bound({
    IF newMessages = 0
    THEN IF tu THEN Fail(s)
         ELSE [Leave(s, "appears_stuck") EXCEPT !.scrollTop = 0, !.pc = "break_wait"]
    ELSE LoopHead([s EXCEPT !.noChangeCount = 0], d, clk, tu)
    : s \in {s0}})

StuckTopResume(s0, d, clk, tu) ==
  Bound({
    StuckTopHarvested(Harvested(s, harvest(s.captured, s.seq, d, clk)),
                      harvest(s.captured, s.seq, d, clk).newMessages, d, clk, tu)
    : s \in {s0}})

\* Lines 940-944, the initial harvest.
InitialHarvested(s0, d, clk, tu) ==
  Bound({
    LoopHead([s EXCEPT !.prevCachedCount = Len(s.captured), !.noChangeCount = 0,
                       !.topCheckCount = 0],
             d, clk, tu)
    : s \in {s0}})

\* Back in the caller of an awaited captureProfileHeader: line 940, line 966
\* or line 1134.
HeaderReturned(s0, ret, d, clk, tu) ==
  Bound({
    IF ret = "init"
    THEN InitialHarvested(Harvested(s, harvest(s.captured, s.seq, d, clk)), d, clk, tu)
    ELSE IF ret = "loop" THEN [s EXCEPT !.scrollTop = 0, !.pc = "quiet_wait"]
    ELSE IF tu THEN Fail(s)
    ELSE [s EXCEPT !.scrollTop = 0, !.pc = "confirm_wait"]
    : s \in {s0}})

\* After the wait(800) of an awaited captureProfileHeader (lines 780-934, all
\* of it inside a try).
HeaderResume(s0, d, clk, tp, tu) ==
  Bound({
    HeaderReturned([s EXCEPT !.captured = IF tp THEN @ ELSE captureProfileHeader(@, d),
                             !.ret = ""],
                   s.ret, d, clk, tu)
    : s \in {s0}})

\* After the first waitForQuiet, lines 431-434 and the call of line 937.
PrimeResume(s0, d) ==
  Bound({
    CallHeader([s EXCEPT !.lastCount = countMessages(d), !.seq = Len(s.captured)], "init")
    : s \in {s0}})

\* Lines 1199-1200: captureProfileHeader() is called and not awaited.
Done1Resume(s0) ==
  Bound({
   [s EXCEPT !.bgHeader = TRUE, !.scrollTop = 0, !.pc = "done_wait2"]
    : s \in {s0}})

\* Lines 1204-1226: the final sort, the record list and the result.
Finish(s0, sorted) ==
  Bound({
    Return([s EXCEPT !.records = sorted, !.scrollTop = 0],
           [ok |-> TRUE, loaded |-> Len(sorted), error |-> ""])
    : s \in {s0}})

FinalSorted(s0) ==
  Bound({
   Finish(s, SortByOrder(s.captured))
    : s \in {s0}})

\* Lines 1202-1226.
Done2Resume(s0, d, clk) ==
  Bound({
   FinalSorted(Harvested(s, harvest(s.captured, s.seq, d, clk)))
    : s \in {s0}})

\* Lines 398-429, from the call to the first await.
Begin(s0, cfg, page) ==
  Bound({
    IF findScroller(page) = NoEl
    THEN Return(s, [ok |-> FALSE, loaded |-> 0, error |-> ""])
    ELSE [s EXCEPT !.cfg = cfg, !.pc = "prime_wait",
                   !.scrollTop = IF page = "chat" THEN 100 ELSE 0]
    : s \in {s0}})

(***************************************************************************)
(* Merger (lines 1274-1622).                                                *)
(***************************************************************************)
\* rec.seq * 1000
SeqTimes1000(seq) == Num(IF seq < 0 THEN -1 ELSE 0, seq * 1000)

\* extractTimestamp, lines 1428-1476.  The element a record's html parses to
\* is the element the record was cloned from.
extractTimestamp(rec, clk) ==
  LET a == Attr(rec.html) IN
  IF NumLess(Year2000, rec.order) THEN ToNumber(rec.order)
  ELSE IF a.time # NoNum THEN a.time
  ELSE IF a.snow # NoNum /\ NumLess(Zero, ToNumber(a.snow))
                         /\ NumLess(ToNumber(a.snow), DateNowPlusDay(clk))
    THEN ToNumber(a.snow)
  ELSE SeqTimes1000(rec.seq)

\* records.slice().sort((a, b) => extractTimestamp(a) - extractTimestamp(b))
SortByTimestamp(recs0, clk) ==
  Bound({
    StableSort([i \in 1..Len(recs) |-> [at |-> extractTimestamp(recs[i], clk), rec |-> recs[i]]])
    : recs \in {recs0}})

\* The placeholder test of the merge on a parsed record, lines 1530-1534.
MergeSkips(rec) == ClassIsPlaceholder(Attr(rec.html).cls)

\* The insertion loop, lines 1521-1541.
RECURSIVE InsertFrom(_, _, _)
InsertFrom(sorted, i, acc0) ==
  Bound({
    IF i > Len(sorted) THEN acc
    ELSE
      LET rec == sorted[i] IN
      IF (rec.key # "" /\ rec.key \in acc.seenKeys) \/ MergeSkips(rec)
      THEN InsertFrom(sorted, i + 1, acc)
      ELSE InsertFrom(sorted, i + 1,
             [children |-> Append(acc.children, rec.html),
              seenKeys |-> acc.seenKeys \cup {rec.key},
              inserted |-> acc.inserted + 1])
    : acc \in {acc0}})

\* The header the merge captures from the live page, lines 1281-1411.
LiveHeader(d) == IF Header \in Range(d) THEN Header ELSE NoEl

\* Lines 1501-1518: the live header goes in first.
FirstChildren(profileHeaderHtml) ==
  IF profileHeaderHtml # NoEl
  THEN [children |-> <<profileHeaderHtml>>, seenKeys |-> {}, inserted |-> 1]
  ELSE [children |-> <<>>, seenKeys |-> {}, inserted |-> 0]

\* The result of lines 1543-1616 without the spacer of lines 1545-1551.  C4 as
\* amended does not hold of a merge that ends like this.
MergedWithoutSpacer(acc, total) ==
  [ok |-> TRUE, inserted |-> acc.inserted, totalMessages |-> total, children |-> acc.children]

\* Lines 1543-1616: the spacer goes in last; the result.
Merged(acc0, total) ==
  Bound({
    [ok |-> TRUE, inserted |-> acc.inserted, totalMessages |-> total,
     children |-> Append(acc.children, Buffer)]
    : acc \in {acc0}})

\* The result of the merge and the children it leaves in the container.
\* A merge that removes the children of the container before it looks at the
\* record list.  C36 does not hold of it.
MergeClearingFirst(recs, d, page, clk) ==
  IF page = "blank" THEN [ok |-> FALSE, inserted |-> 0, totalMessages |-> 0, children |-> d]
  ELSE IF recs = <<>>
  THEN [ok |-> FALSE, inserted |-> 0, totalMessages |-> 0, children |-> <<>>]
  ELSE Merged(InsertFrom(SortByTimestamp(recs, clk), 1, FirstChildren(LiveHeader(d))),
              Len(recs))

mergeBufferedMessagesIntoDiscordPage(recs, d, page, clk) ==
  IF page = "blank" \/ recs = <<>>
  THEN [ok |-> FALSE, inserted |-> 0, totalMessages |-> 0, children |-> d]
  ELSE Merged(InsertFrom(SortByTimestamp(recs, clk), 1, FirstChildren(LiveHeader(d))),
              Len(recs))

NoMerge == [ok |-> FALSE, inserted |-> 0, totalMessages |-> 0, children |-> <<>>]

(***************************************************************************)
(* Init and the actions.                                                    *)
(***************************************************************************)
\* The arguments captureChatHistory passes, [300, 1200, 15, true] (line 189),
\* scaled to the sources of the model.
Passed == [maxMessages |-> 2, maxNoNew |-> 2, untilTop |-> TRUE]

\* A run: the page, what its renderer can mount, the arguments of the
\* acquisition, whether a scroll or dispatch call can throw on the page, and
\* whether the user asks for a capture while one is running.
World(page, source, cfg, faulty, overlap) ==
  [page |-> page, source |-> source, cfg |-> cfg, faulty |-> faulty, overlap |-> overlap]

Worlds ==
  {World("chat", {"m1", "m3"}, Passed, FALSE, FALSE),
   World("chat", {"m2", "m2e"}, Passed, FALSE, FALSE),
   World("chat", {"m4"}, Passed, TRUE, FALSE),
   World("chat", {"m4", "m5"}, [Passed EXCEPT !.untilTop = FALSE], TRUE, FALSE),
   World("chat", {"m1", "m3"}, [Passed EXCEPT !.untilTop = FALSE], FALSE, FALSE),
   World("chat", {"m1"}, [Passed EXCEPT !.maxMessages = 0], FALSE, FALSE),
   World("chat", {"m3"}, [Passed EXCEPT !.maxMessages = 0, !.untilTop = FALSE], FALSE, FALSE),
   World("short", {"m1", "m3"}, Passed, FALSE, FALSE),
   World("brief", {"m1", "m3"}, [Passed EXCEPT !.maxMessages = 1, !.untilTop = FALSE], FALSE, TRUE),
   World("brief", {"m8", "m9", "m3"}, [Passed EXCEPT !.untilTop = FALSE], FALSE, FALSE),
   World("brief", {"m10", "m11", "m12", "m13", "m14"},
         [Passed EXCEPT !.maxMessages = 0, !.untilTop = FALSE], FALSE, FALSE),
   World("chat", {"m1", "m6"}, [Passed EXCEPT !.untilTop = FALSE], FALSE, FALSE),
   World("chat", {"ph", "m7"}, [Passed EXCEPT !.untilTop = FALSE], FALSE, FALSE),
   World("blank", {}, Passed, FALSE, FALSE)}

Throws(w) == IF w.faulty THEN BOOLEAN ELSE {FALSE}

\* The locals of captureChatHistory; merges counts the merges of the capture,
\* outcome is how the capture ended.
OrchIdle ==
  [pc |-> "idle", scrollResult |-> Idle.result, mergeRes |-> NoMerge, merges |-> 0,
   outcome |-> ""]

\* waitForQuiet has not been called.  now is Date.now() minus the time the
\* document was loaded; seen is the time the renderer last mutated the document
\* during the wait, -1 when it has not.
(***************************************************************************)
(* The media toggles and the export of captureChatHistory (lines 65-76,     *)
(* 99-163, 236-257).  An attribute is its value, or NoAttr when the element *)
(* does not have it.                                                        *)
(***************************************************************************)
NoAttr == "null"

SrcChoices == {NoAttr, "a.png", "b.gif"}

SrcsetChoices == {NoAttr, "b.gif 2x"}

TypeChoices == {NoAttr, "image/png", "image/gif"}

\* isGifUrl (lines 103-105), srcset.includes('.gif') and /gif/i.test(type)
isGifUrl(u) == u = "b.gif"

IncludesGif(srcset) == srcset = "b.gif 2x"

TypeIsGif(type) == type = "image/gif"

MediaEl(src, srcset, type) ==
  [src |-> src, srcset |-> srcset, type |-> type, prevSrc |-> NoAttr, prevSrcset |-> NoAttr]

\* The pages: one img, which has no type, and one source.
MediaPages ==
  {[img |-> MediaEl(s1, ss1, NoAttr), source |-> MediaEl(s2, ss2, t2)] :
     s1 \in SrcChoices, ss1 \in SrcsetChoices,
     s2 \in SrcChoices, ss2 \in SrcsetChoices, t2 \in TypeChoices}

\* Lines 118-121 and 133-137: the marks are set once, the attributes removed.
Stripped(e, dropType) ==
  [e EXCEPT !.prevSrc = IF e.src # NoAttr /\ e.prevSrc = NoAttr THEN e.src ELSE @,
            !.prevSrcset = IF e.srcset # NoAttr /\ e.prevSrcset = NoAttr THEN e.srcset ELSE @,
            !.src = NoAttr,
            !.srcset = NoAttr,
            !.type = IF dropType THEN NoAttr ELSE @]

\* stripMediaInPage (lines 99-163) on the elements of the page
stripMediaInPage(page, disablePhotos, disableGifs) ==
  [img |->
     IF disablePhotos
        \/ (disableGifs /\ (isGifUrl(page.img.src) \/ IncludesGif(page.img.srcset)))
     THEN Stripped(page.img, FALSE) ELSE page.img,
   source |->
     IF disablePhotos
        \/ (disableGifs /\ (TypeIsGif(page.source.type) \/ isGifUrl(page.source.src)
                              \/ IncludesGif(page.source.srcset)))
     THEN Stripped(page.source, TRUE) ELSE page.source]

\* Lines 146-158: an element that has a mark gets the attribute back.
Restored(e) ==
  [e EXCEPT !.src = IF e.prevSrc # NoAttr THEN e.prevSrc ELSE @,
            !.prevSrc = NoAttr,
            !.srcset = IF e.prevSrcset # NoAttr THEN e.prevSrcset ELSE @,
            !.prevSrcset = NoAttr]

\* The function stripMediaInPage leaves in window.__sf_restoreMedia (lines
\* 144-160); restoreMediaInPage is the name of that function expression.
restoreMediaInPage(page) == [img |-> Restored(page.img), source |-> Restored(page.source)]

\* The function declarations of the service worker that lines 240 and 256 name.
\* The name of a function expression is bound inside that function only.
WorkerFunctions == {"stripMediaInPage"}

\* Line 256: { ..., func: restoreMediaInPage } is evaluated in the service
\* worker inside try { } catch { }.  When the name is not bound there, the
\* ReferenceError is caught and nothing is injected.
RestoreInjected(page) ==
  IF "restoreMediaInPage" \in WorkerFunctions THEN restoreMediaInPage(page) ELSE page

NoMedia ==
  [pc |-> "idle", disablePhotos |-> FALSE, disableGifs |-> FALSE, didStrip |-> FALSE,
   page |-> [img |-> MediaEl(NoAttr, NoAttr, NoAttr), source |-> MediaEl(NoAttr, NoAttr, NoAttr)],
   before |-> [img |-> MediaEl(NoAttr, NoAttr, NoAttr),
               source |-> MediaEl(NoAttr, NoAttr, NoAttr)]]

MediaStarts == {[NoMedia EXCEPT !.page = pg, !.before = pg] : pg \in MediaPages}

NotCalled ==
  [state |-> "idle", msStable |-> 0, maxWait |-> 0, now |-> 0, start |-> 0,
   lastMutationTs |-> 0, lastMessageCount |-> 0, seen |-> -1, why |-> "",
   observers |-> 0, calls |-> 0]

InitOf(worlds, medias) ==
  /\ world \in worlds
  /\ media \in medias
  /\ alive = "doc"
  /\ dom = <<>>
  /\ scrollTop = 0
  /\ clock = 0
  /\ captured = <<>>
  /\ records = <<>>
  /\ ses = [p \in Captures |-> Idle]
  /\ orch = [p \in Captures |-> OrchIdle]
  /\ lost = <<>>
  /\ wq = NotCalled
  /\ consoleLog = OriginalLog

InitWith(worlds) == InitOf(worlds, {NoMedia})

Init == InitWith(Worlds)

\* The document the tab shows: after a navigation, some other page.
PageNow == IF alive = "doc" THEN world.page ELSE "blank"

\* The messages an executeScript rejects with when its frame goes away, by what
\* the tests of lines 193 and 262 see in them.
FrameRemoved == "Frame with ID 0 was removed."

OtherMessage == "The tab was closed."

RejectionMessages == {FrameRemoved, OtherMessage}

TabWasClosed == "Tab was closed or navigated away during capture"

\* Lines 192-197: the message of the error thrown on.
Rethrown(msg) == IF msg = FrameRemoved THEN TabWasClosed ELSE msg

\* Lines 258-278: no fallback for a message that has 'Tab was closed' or 'Frame
\* with ID' in it; else the fallback when chrome.tabs.get still finds the tab.
Caught(msg, tab) ==
  IF msg \in {TabWasClosed, FrameRemoved} THEN "unavailable"
  ELSE IF tab = "closed" THEN "failed"
  ELSE "fallback"

Ended(how) == [OrchIdle EXCEPT !.pc = "ended", !.outcome = how]

\* The locals of p together with the window state a block writes.
Window ==
  [captured |-> captured, records |-> records, scrollTop |-> scrollTop,
   consoleLog |-> consoleLog]

Loc(p) == ses[p] @@ Window

\* Store what a block left: the window state back in the window, the rest in ses.
Put(p, s) ==
  /\ captured' = s.captured
  /\ records' = s.records
  /\ scrollTop' = s.scrollTop
  /\ consoleLog' = s.consoleLog
  /\ ses' = [ses EXCEPT ![p] = [f \in DOMAIN Idle |-> s[f]]]

Running(p) == ses[p].pc \notin {"idle", "returned", "dead"}

Busy(p) == orch[p].pc # "idle"

\* chrome.contextMenus.onClicked, 'sf-capture-chat-history' (lines 61-63), and
\* captureChatHistory up to its first await, the executeScript of line 186,
\* which runs autoScrollDiscordHistory up to its first await.
Trigger(p) ==
  /\ alive = "doc"
  /\ ~Busy(p)
  /\ p = "c1" \/ (world.overlap /\ Busy("c1"))
  /\ (\E s \in {Begin(Intercepted([Idle EXCEPT !.bgHeader = ses[p].bgHeader] @@ Window, p),
                       world.cfg, world.page)} : Put(p, s))
  /\ orch' = [orch EXCEPT ![p] = [OrchIdle EXCEPT !.pc = "scroll"]]
  /\ clock' = Later(clock)
  /\ UNCHANGED <<media, wq, world, alive, dom, lost>>

\* A block of invocation p resumes at pc: the renderer has left the children d
\* and the scroll position sc.
At(p, pc) == alive = "doc" /\ ses[p].pc = pc

Resumed(p, sc) == [Loc(p) EXCEPT !.scrollTop = sc]

Rendered(d) ==
  /\ dom' = d
  /\ UNCHANGED <<media, wq, world, alive, clock, orch, lost>>

Prime(p) ==
  /\ At(p, "prime_wait")
  /\ \E d \in PageDoms(world), sc \in ScrollChoices(world.page) :
       Rendered(d) /\ (\E s \in {PrimeResume(Resumed(p, sc), d)} : Put(p, s))

HeaderWait(p) ==
  /\ At(p, "hdr_wait")
  /\ \E d \in PageDoms(world), sc \in ScrollChoices(world.page),
        tp \in Throws(world), tu \in Throws(world) :
       Rendered(d) /\ (\E s \in {HeaderResume(Resumed(p, sc), d, clock, tp, tu)} : Put(p, s))

QuietWait(p) ==
  /\ At(p, "quiet_wait")
  /\ \E d \in PageDoms(world), sc \in ScrollChoices(world.page),
        tp \in Throws(world), tu \in Throws(world) :
       Rendered(d) /\ (\E s \in {QuietResume(Resumed(p, sc), d, clock, tp, tu)} : Put(p, s))

BumpWait(p) ==
  /\ At(p, "bump_wait")
  /\ \E d \in PageDoms(world), sc \in ScrollChoices(world.page),
        tp \in Throws(world), tu \in Throws(world) :
       Rendered(d) /\ (\E s \in {BumpResume(Resumed(p, sc), d, clock, tp, tu)} : Put(p, s))

BumpTopWait(p) ==
  /\ At(p, "bump_top_wait")
  /\ \E d \in PageDoms(world), sc \in ScrollChoices(world.page),
        tp \in Throws(world), tu \in Throws(world) :
       Rendered(d) /\ (\E s \in {BumpTopResume(Resumed(p, sc), d, clock, tp, tu)} : Put(p, s))

CatchTopWait(p) ==
  /\ At(p, "catch_top_wait")
  /\ \E d \in PageDoms(world), sc \in ScrollChoices(world.page),
        tu \in Throws(world) :
       Rendered(d) /\ (\E s \in {CatchTopResume(Resumed(p, sc), d, clock, tu)} : Put(p, s))

ConfirmWait(p) ==
  /\ At(p, "confirm_wait")
  /\ \E d \in PageDoms(world), sc \in ScrollChoices(world.page),
        tu \in Throws(world) :
       Rendered(d) /\ (\E s \in {ConfirmResume(Resumed(p, sc), d, clock, tu)} : Put(p, s))

FinalWait(p) ==
  /\ At(p, "final_wait")
  /\ \E d \in PageDoms(world), sc \in ScrollChoices(world.page),
        tu \in Throws(world) :
       Rendered(d) /\ (\E s \in {FinalResume(Resumed(p, sc), d, clock, tu)} : Put(p, s))

StuckTopWait(p) ==
  /\ At(p, "stuck_top_wait")
  /\ \E d \in PageDoms(world), sc \in ScrollChoices(world.page),
        tu \in Throws(world) :
       Rendered(d) /\ (\E s \in {StuckTopResume(Resumed(p, sc), d, clock, tu)} : Put(p, s))

\* The wait(200) before a break, lines 1038, 1057, 1157 and 1179.
BreakWait(p) ==
  /\ At(p, "break_wait")
  /\ \E d \in PageDoms(world), sc \in ScrollChoices(world.page),
        tu \in Throws(world) :
       Rendered(d) /\ (\E s \in {AfterLoop(Resumed(p, sc), ses[p].stop, d, clock, tu)} : Put(p, s))

Done1Wait(p) ==
  /\ At(p, "done_wait1")
  /\ \E d \in PageDoms(world), sc \in ScrollChoices(world.page) :
       Rendered(d) /\ (\E s \in {Done1Resume(Resumed(p, sc))} : Put(p, s))

Done2Wait(p) ==
  /\ At(p, "done_wait2")
  /\ \E d \in PageDoms(world), sc \in ScrollChoices(world.page) :
       Rendered(d) /\ (\E s \in {Done2Resume(Resumed(p, sc), d, clock)} : Put(p, s))

\* The captureProfileHeader of line 1199 resumes from its wait(800).  Its
\* caller waits 300 ms and returns without an await in between, so by then the
\* invocation has returned.
BackgroundHeader(p) ==
  /\ alive = "doc"
  /\ ses[p].bgHeader
  /\ ses[p].pc \in {"idle", "returned"}
  /\ captured' = captureProfileHeader(captured, dom)
  /\ ses' = [ses EXCEPT ![p].bgHeader = FALSE]
  /\ UNCHANGED <<media, consoleLog, wq, world, alive, dom, scrollTop, clock, records, orch, lost>>

(***************************************************************************)
(* captureChatHistory (lines 175-279), in the service worker.               *)
(***************************************************************************)
\* The executeScript of line 186 resolves with what the invocation returned.
\* Line 199 only logs a result that is not ok.
ScrollReturned(p) ==
  /\ orch[p].pc = "scroll"
  /\ ses[p].pc = "returned"
  /\ alive = "doc"
  /\ orch' = [orch EXCEPT ![p].pc = "check1", ![p].scrollResult = ses[p].result]
  /\ ses' = [ses EXCEPT ![p] = [Idle EXCEPT !.bgHeader = ses[p].bgHeader]]
  /\ UNCHANGED <<media, consoleLog, wq, world, alive, dom, scrollTop, clock, captured, records, lost>>

\* chrome.tabs.get of line 205 resolves; the executeScript of line 213 runs the
\* merge up to its first await, in the document the tab shows now.
Merge(p) ==
  /\ orch[p].pc = "check1"
  /\ alive # "closed"
  /\ LET m == mergeBufferedMessagesIntoDiscordPage(records, dom, PageNow, clock) IN
       /\ dom' = m.children
       /\ orch' = [orch EXCEPT ![p].pc = "merge", ![p].mergeRes = m, ![p].merges = @ + 1]
  /\ UNCHANGED <<media, consoleLog, wq, world, alive, scrollTop, clock, captured, records, ses, lost>>

\* The merge returns and chrome.tabs.get of line 231 resolves; lines 236-257,
\* the export of the page.
Export(p) ==
  /\ orch[p].pc = "merge"
  /\ alive # "closed"
  /\ orch' = [orch EXCEPT ![p] = IF alive = "doc" THEN [OrchIdle EXCEPT !.outcome = "exported"]
                                 ELSE Ended("exported")]
  /\ UNCHANGED <<media, consoleLog, wq, world, alive, dom, scrollTop, clock, captured, records, ses, lost>>

\* The tab is closed or goes to another document while a capture is under way.
\* The document's window, with the cache, and the invocations running in it
\* are gone; a merge that has not returned was running in it.
Destroy(how) ==
  /\ alive = "doc"
  /\ \E p \in Captures : Busy(p)
  /\ alive' = how
  /\ lost' = captured
  /\ captured' = <<>>
  /\ records' = <<>>
  /\ dom' = <<>>
  /\ scrollTop' = 0
  /\ ses' = [p \in Captures |-> IF ses[p].pc = "idle" THEN Idle ELSE [Idle EXCEPT !.pc = "dead"]]
  /\ orch' = [p \in Captures |->
               IF orch[p].pc = "merge" THEN [orch[p] EXCEPT !.pc = "merge_lost"] ELSE orch[p]]
  /\ consoleLog' = OriginalLog
  /\ UNCHANGED <<media, wq, world, clock>>

\* The executeScript of line 186 rejects with the message msg; the catch of
\* lines 192-197 and the outer catch of lines 258-278.
ScrollRejected(p) ==
  /\ orch[p].pc = "scroll"
  /\ alive # "doc"
  /\ \E msg \in RejectionMessages :
       orch' = [orch EXCEPT ![p] = Ended(Caught(Rethrown(msg), alive))]
  /\ UNCHANGED <<media, consoleLog, wq, world, alive, dom, scrollTop, clock, captured, records, ses, lost>>

\* chrome.tabs.get of line 205 rejects: the throw of line 207 and the outer
\* catch.
TabGone(p) ==
  /\ orch[p].pc = "check1"
  /\ alive = "closed"
  /\ orch' = [orch EXCEPT ![p] = Ended(Caught(TabWasClosed, alive))]
  /\ UNCHANGED <<media, consoleLog, wq, world, alive, dom, scrollTop, clock, captured, records, ses, lost>>

\* The executeScript of line 213 rejects with the message msg: lines 218-223,
\* then chrome.tabs.get of line 231 and, when the tab is still there, the
\* export of what it shows.
MergeRejected(p) ==
  /\ orch[p].pc = "merge_lost"
  /\ \E msg \in RejectionMessages :
       orch' = [orch EXCEPT ![p] =
                  IF msg = FrameRemoved \/ alive = "closed"
                  THEN Ended(Caught(TabWasClosed, alive))
                  ELSE Ended("exported")]
  /\ UNCHANGED <<media, consoleLog, wq, world, alive, dom, scrollTop, clock, captured, records, ses, lost>>

Next ==
  \E p \in Captures :
    \/ Trigger(p)
    \/ Prime(p)
    \/ HeaderWait(p)
    \/ QuietWait(p)
    \/ BumpWait(p)
    \/ BumpTopWait(p)
    \/ CatchTopWait(p)
    \/ ConfirmWait(p)
    \/ FinalWait(p)
    \/ StuckTopWait(p)
    \/ BreakWait(p)
    \/ Done1Wait(p)
    \/ Done2Wait(p)
    \/ BackgroundHeader(p)
    \/ ScrollReturned(p)
    \/ Merge(p)
    \/ Export(p)
    \/ ScrollRejected(p)
    \/ TabGone(p)
    \/ MergeRejected(p)
    \/ \E how \in {"closed", "navigated"} : Destroy(how)

Spec == Init /\ [][Next]_vars

\* The timers and the promises of an invocation that is waiting do fire: an
\* invocation that can resume does resume.
Step(p) ==
  \/ Prime(p)
  \/ HeaderWait(p)
  \/ QuietWait(p)
  \/ BumpWait(p)
  \/ BumpTopWait(p)
  \/ CatchTopWait(p)
  \/ ConfirmWait(p)
  \/ FinalWait(p)
  \/ StuckTopWait(p)
  \/ BreakWait(p)
  \/ Done1Wait(p)
  \/ Done2Wait(p)

FairWorlds == {World("chat", {"m4", "m5"}, Passed, TRUE, FALSE)}

FairSpec == InitWith(FairWorlds) /\ [][Next]_vars /\ \A p \in Captures : WF_vars(Step(p))

(***************************************************************************)
(* waitForQuiet (lines 375-397), one call of it.  The promise is made with  *)
(* resolve alone; its executor and the two callbacks, the MutationObserver's *)
(* and tick, run to their end without an await.  Time passes between them.  *)
(***************************************************************************)
\* The longest a run is followed, in units of Date.now(); a call is followed
\* when its time limit falls within the run.
MaxTime == 5

StableChoices == {0, 1, 2}

MaxWaitChoices == {1, 3, 4}

\* The number of waits of one caller that are followed, one after the other.
MaxCalls == 2

\* tick without the test of line 392: only quiet resolves.
TickWithoutTimeout(w) ==
  IF w.now - w.lastMutationTs >= w.msStable
  THEN [w EXCEPT !.state = "resolved", !.why = "quiet", !.observers = @ - 1]
  ELSE w

\* tick without the obs.disconnect() of line 392: a wait that ends at its time
\* limit leaves its observer connected.  C31 does not hold of this tick.
TickLeakingOnTimeout(w) ==
  IF w.now - w.lastMutationTs >= w.msStable
  THEN [w EXCEPT !.state = "resolved", !.why = "quiet", !.observers = @ - 1]
  ELSE IF w.now - w.start >= w.maxWait
  THEN [w EXCEPT !.state = "resolved", !.why = "timeout"]
  ELSE w

\* tick, lines 389-394: obs.disconnect() and resolve(), or requestAnimationFrame.
Tick(w) ==
  IF w.now - w.lastMutationTs >= w.msStable
  THEN [w EXCEPT !.state = "resolved", !.why = "quiet", !.observers = @ - 1]
  ELSE IF w.now - w.start >= w.maxWait
  THEN [w EXCEPT !.state = "resolved", !.why = "timeout", !.observers = @ - 1]
  ELSE w

\* An observer whose callback does not move lastMutationTs.
ObservedCountOnly(w, d) ==
  [w EXCEPT !.lastMessageCount = countMessages(d), !.seen = w.now]

\* The MutationObserver's callback, lines 380-387, on the document d.
Observed(w, d) ==
  [w EXCEPT !.lastMutationTs = w.now, !.lastMessageCount = countMessages(d), !.seen = w.now]

\* The executor, lines 377-395: start, lastMutationTs, lastMessageCount, the
\* observer with its obs.observe (line 388) and the first tick().  observers
\* counts the observers that are connected, calls the calls made; seen and why
\* tell of this call alone.
Called(w, msStable, maxWait, d) ==
  Tick([w EXCEPT !.state = "pending", !.msStable = msStable, !.maxWait = maxWait,
                 !.start = w.now, !.lastMutationTs = w.now,
                 !.lastMessageCount = countMessages(d),
                 !.seen = -1, !.why = "",
                 !.observers = @ + 1, !.calls = @ + 1])

QuietFrame ==
  UNCHANGED <<world, alive, scrollTop, clock, captured, records, ses, orch, lost, consoleLog,
              media>>

\* The caller awaits the promise and calls again only when it has resolved
\* (lines 429 and 991).
WaitForQuiet ==
  /\ wq.state \in {"idle", "resolved"}
  /\ wq.calls < MaxCalls
  /\ \E msStable \in StableChoices, maxWait \in MaxWaitChoices :
       /\ wq.now + maxWait <= MaxTime
       /\ wq' = Called(wq, msStable, maxWait, dom)
  /\ dom' = dom
  /\ QuietFrame

\* Date.now() advances.
Elapse ==
  /\ wq.state # "resolved"
  /\ wq.now < MaxTime
  /\ wq' = [wq EXCEPT !.now = @ + 1]
  /\ dom' = dom
  /\ QuietFrame

\* The renderer mutates the document (children, attributes or text) and the
\* observer's callback runs; after obs.disconnect() it runs no more.
Mutation ==
  /\ wq.observers > 0
  /\ \E d \in PageDoms(world) :
       /\ dom' = d
       /\ wq' = Observed(wq, d)
  /\ QuietFrame

\* The animation frame: tick runs.
Frame ==
  /\ wq.state = "pending"
  /\ wq' = Tick(wq)
  /\ dom' = dom
  /\ QuietFrame

QuietNext == WaitForQuiet \/ Elapse \/ Mutation \/ Frame

QuietWorlds == {World("chat", {"m1", "m3"}, Passed, FALSE, FALSE)}

\* Time passes and, while the page is shown, animation frames are delivered.
QuietSpec ==
  InitWith(QuietWorlds) /\ [][QuietNext]_vars /\ WF_vars(Elapse) /\ WF_vars(Frame)

(***************************************************************************)
(* The export of captureChatHistory (lines 236-257), on its own.            *)
(***************************************************************************)
MediaFrame ==
  UNCHANGED <<world, alive, dom, scrollTop, clock, captured, records, ses, orch, lost, wq,
              consoleLog>>

\* chrome.contextMenus.onClicked, 'sf-disable-photos' and 'sf-disable-gifs'
\* (lines 65-76): the new value goes to storage.
TogglePhotos ==
  /\ media.pc = "idle"
  /\ media' = [media EXCEPT !.disablePhotos = ~@]
  /\ MediaFrame

ToggleGifs ==
  /\ media.pc = "idle"
  /\ media' = [media EXCEPT !.disableGifs = ~@]
  /\ MediaFrame

\* Lines 236-242: the toggles are read and, when one is set, stripMediaInPage
\* is injected.
Strip ==
  /\ media.pc = "idle"
  /\ media' = [media EXCEPT
                 !.pc = "stripped",
                 !.didStrip = media.disablePhotos \/ media.disableGifs,
                 !.before = media.page,
                 !.page = IF media.disablePhotos \/ media.disableGifs
                          THEN stripMediaInPage(@, media.disablePhotos, media.disableGifs)
                          ELSE @]
  /\ MediaFrame

\* Lines 245-251: saveAsMHTML and chrome.downloads.download.
Download ==
  /\ media.pc = "stripped"
  /\ media' = [media EXCEPT !.pc = "downloaded"]
  /\ MediaFrame

\* Lines 254-257.
Restore ==
  /\ media.pc = "downloaded"
  /\ media' = [media EXCEPT !.pc = "done",
                            !.page = IF media.didStrip THEN RestoreInjected(@) ELSE @]
  /\ MediaFrame

MediaNext == TogglePhotos \/ ToggleGifs \/ Strip \/ Download \/ Restore

MediaSpec == InitOf(QuietWorlds, MediaStarts) /\ [][MediaNext]_vars

(***************************************************************************)
(* The claims.                                                              *)
(***************************************************************************)
\* C1: while the document lives, every step (a harvest, a header capture, the
\* start of a later acquisition) leaves each record of the cache at its place
\* with its html, order and sequence unchanged, and no key is cached twice.
C1_RecordsKept ==
  [][alive' = "doc" =>
       /\ \A i \in 1..Len(captured) : i <= Len(captured') /\ captured'[i] = captured[i]
       /\ \A i, j \in 1..Len(captured') : captured'[i].key = captured'[j].key => i = j]_vars

\* A resumed acquisition (its sequence counter started at the size of a cache
\* that held the header) has harvested a document that shows the edited
\* rendering of an item cached from its first rendering.
C1_Witness ==
  \E p \in Captures :
    /\ ses[p].pc = "done_wait1"
    /\ Has(captured, ProfileKey)
    /\ ses[p].seq = Len(captured)
    /\ "m2e" \in Range(dom)
    /\ \E i \in 1..Len(captured) : captured[i].key = "id2" /\ captured[i].html = "m2"

\* C2: an acquisition that is running returns (or ends with its document),
\* whatever the renderer does, when its timers keep firing.
C2_Terminates == \A p \in Captures : Running(p) ~> ~Running(p)

\* C3: on a page without a scrollable container an acquisition is never at a
\* wait: it has returned, with ok false, before its first await.
C3_NoScrollerFailsFast ==
  \A p \in Captures :
    world.page # "chat" => ses[p].pc \in {"idle", "returned", "dead"} /\ ~ses[p].result.ok

\* The step in which the merge of capture p runs, and returns ok.
MergeRuns(p) == orch[p].pc = "check1" /\ orch'[p].pc = "merge"

MergeReturnsOk(p) == MergeRuns(p) /\ orch'[p].mergeRes.ok

Count(seq, e) == Cardinality({k \in 1..Len(seq) : seq[k] = e})

Htmls(recs) == {recs[i].html : i \in 1..Len(recs)}

RecOf(recs, el) == CHOOSE r \in Range(recs) : r.html = el

\* (order ascending, sequence ascending)
Before(a, b) == NumLess(a.order, b.order) \/ (a.order = b.order /\ a.seq < b.seq)

C5_MergeOrder ==
  [][\A p \in Captures : MergeReturnsOk(p) =>
       \A k, l \in 1..Len(dom') :
         k < l /\ dom'[k] \in Htmls(records) /\ dom'[l] \in Htmls(records)
           => ~Before(RecOf(records, dom'[l]), RecOf(records, dom'[k]))]_vars

\* C6: at no time are two acquisitions running in the document.
C6_OneSession == Cardinality({p \in Captures : Running(p)}) <= 1

\* C7: a capture runs its merge at most once, and a merge starts only when no
\* acquisition is running in the document.
C7_MergeAfterAcquire ==
  [][\A p \in Captures : MergeRuns(p) =>
       orch'[p].merges <= 1 /\ \A q \in Captures : ~Running(q)]_vars

\* The step in which the acquisition of capture p returns.
Returns(p) == ses[p].pc # "returned" /\ ses'[p].pc = "returned"

\* C8: an acquisition that left its loop because it was stuck returns ok with
\* the number of records captured.
C8_StuckIsSuccess ==
  [][\A p \in Captures : Returns(p) /\ ses'[p].stop = "stuck" =>
       ses'[p].result.ok /\ ses'[p].result.loaded = Len(records')]_vars

\* C9: when an acquisition returns a failure, every record of the cache is in
\* the record list, which is what the caller and a merge read.
C9_FailureKeepsRecords ==
  [][\A p \in Captures : Returns(p) /\ ~ses'[p].result.ok =>
       \A i \in 1..Len(captured') : \E j \in 1..Len(records') : records'[j] = captured'[i]]_vars

\* C10: when the document goes away while the acquisition is running, with
\* records in its cache, the capture ends as "document unavailable" and the
\* records the cache held are still in the record list.
C10_DestroyedKeepsRecords ==
  [][\A p \in Captures : orch[p].pc = "scroll" /\ orch'[p].pc = "ended" /\ lost # <<>> =>
       /\ orch'[p].outcome = "unavailable"
       /\ \A i \in 1..Len(lost) : \E j \in 1..Len(records') : records'[j] = lost[i]]_vars

\* C11: in every state, for every document the renderer can show, harvesting
\* it and then harvesting it again (at the same or a later time) inserts no
\* record the second time: the cache, with every record in it, and the
\* sequence counter are what the first harvest left.
C11_SecondHarvestIsNoOp ==
  \A seq \in {ses[p].seq : p \in Captures}, d \in PageDoms(world), clk \in {clock, Later(clock)} :
    \A first \in {harvest(captured, seq, d, clock)} :
      \A second \in {harvest(first.captured, first.seq, d, clk)} :
        /\ second.newMessages = 0
        /\ Len(second.captured) = Len(first.captured)
        /\ second.captured = first.captured
        /\ second.seq = first.seq

\* An acquisition has harvested and cached the two items the document shows;
\* a harvest of this document now is the second one.
C11_Witness ==
  \E p \in Captures :
    /\ Running(p)
    /\ ses[p].seq = 2
    /\ Len(selectVisible(dom)) = 2
    /\ \A i \in 1..2 : \E j \in 1..Len(captured) : captured[j].html = selectVisible(dom)[i]
    /\ records = captured

\* C12: in every state, no record of the cache that a harvest inserted (every
\* record but the header's, which captureProfileHeader inserts) holds a node
\* that isPlaceholder classifies as a placeholder; the same holds of the record
\* list.
C12_NoPlaceholderCached ==
  /\ \A i \in 1..Len(captured) :
       captured[i].key # ProfileKey => ~isPlaceholder(captured[i].html)
  /\ \A i \in 1..Len(records) :
       records[i].key # ProfileKey => ~isPlaceholder(records[i].html)

\* A running acquisition has harvested a document that shows a placeholder next
\* to an item: the item is cached.
C12_Witness ==
  \E p \in Captures :
    /\ Running(p)
    /\ \E i \in 1..Len(dom) : dom[i] # Header /\ isPlaceholder(dom[i])
    /\ \E i \in 1..Len(dom), j \in 1..Len(captured) :
         dom[i] # Header /\ captured[j].html = dom[i]

\* The logical item a node renders: an edited rendering is the item it edits.
Item(el) == IF el = "m2e" THEN "m2" ELSE el

\* C13: in every state, for every document the renderer can show, two nodes of
\* it that render different items get different keys, and after a harvest of
\* the document every item it shows is cached.
C13_DistinctItemsDistinctKeys ==
  \A d \in PageDoms(world), seq \in {ses[p].seq : p \in Captures} :
    \A nodes \in {selectVisible(d)}, h \in {harvest(captured, seq, d, clock)} :
      /\ \A i, j \in 1..Len(nodes) :
           (~isPlaceholder(nodes[i]) /\ ~isPlaceholder(nodes[j]) /\ Item(nodes[i]) # Item(nodes[j]))
             => getKey(nodes[i], i - 1) # getKey(nodes[j], j - 1)
      /\ \A i \in 1..Len(nodes) :
           ~isPlaceholder(nodes[i])
             => \E k \in 1..Len(h.captured) : Item(h.captured[k].html) = Item(nodes[i])

\* C14: in every state, no two records of the cache hold the same logical item:
\* an item mounted in several harvests, at whatever enumeration index, is
\* cached under one key.
C14_OneKeyPerItem ==
  \A i, j \in 1..Len(captured) :
    i # j => Item(captured[i].html) # Item(captured[j].html)

\* C15: in every state, of any two records of the record list with different
\* order values, acquire's final sort and merge's sort both put the one with
\* the smaller order value first, whichever of them stands first in the list.
C15_ComparisonsExact ==
  \A i, j \in 1..Len(records) :
    NumLess(records[i].order, records[j].order)
      => /\ SortByOrder(<<records[j], records[i]>>) = <<records[i], records[j]>>
         /\ SortByTimestamp(<<records[j], records[i]>>, clock) = <<records[i], records[j]>>

\* C16: in every state in which a merge has returned ok and the container
\* holds the children it left, a second merge of the same record list gives
\* the same children again.
C16_MergeTwiceSame ==
  \A p \in Captures :
    (orch[p].pc = "merge" /\ orch[p].mergeRes.ok /\ dom = orch[p].mergeRes.children)
      => mergeBufferedMessagesIntoDiscordPage(records, dom, PageNow, clock).children = dom

\* The items of a source: its nodes that are no placeholders, an edited
\* rendering counted with the item it edits.
Items(source) == {Item(e) : e \in {x \in source : ~isPlaceholder(x)}}

\* C17: when an acquisition called with untilTop and a limit of no less than
\* the number of items of the source, on a page whose scroll calls do not
\* throw, leaves the loop at the confirmed top with every item of the source
\* cached, it returns ok and a count equal to the number of items of the source.
C17_LoadedIsItemCount ==
  [][\A p \in Captures :
       (/\ Returns(p)
        /\ ses'[p].stop = "top"
        /\ ~world.faulty
        /\ world.cfg.untilTop
        /\ world.cfg.maxMessages = 0 \/ world.cfg.maxMessages >= Cardinality(Items(world.source))
        /\ \A e \in Items(world.source) :
             \E j \in 1..Len(captured') : Item(captured'[j].html) = e)
       => /\ ses'[p].result.ok
          /\ ses'[p].result.loaded = Cardinality(Items(world.source))]_vars

C19_NotEarly ==
  wq.state = "resolved" =>
    \/ /\ wq.now - wq.start >= wq.msStable
       /\ wq.seen = -1 \/ wq.now - wq.seen >= wq.msStable
    \/ wq.now - wq.start >= wq.maxWait

\* A wait has ended before its time limit, a full stability window after the
\* renderer's last mutation.
C19_Witness ==
  /\ wq.state = "resolved"
  /\ wq.why = "quiet"
  /\ wq.msStable > 0
  /\ wq.seen >= 0
  /\ wq.now - wq.seen >= wq.msStable
  /\ wq.now - wq.start < wq.maxWait

\* C20: while the document lives, a step taken when every acquisition has
\* returned, and that starts none, leaves the cache as it is: nothing an
\* acquisition has started writes the cache after it has returned.
C20_ReadOnlyAfterReturn ==
  [][(/\ alive = "doc" /\ alive' = "doc"
      /\ \A p \in Captures : ~Running(p) /\ ses'[p].pc \in {"idle", "returned"})
     => captured' = captured]_vars

\* C21: the merge of a capture runs only when the acquisition of that capture
\* returned ok: after a failure the capture goes to its export without a merge
\* of the live container.
C21_NoMergeAfterFailure ==
  [][\A p \in Captures : MergeRuns(p) => orch[p].scrollResult.ok]_vars

C23_ConfirmedWithoutGrowth ==
  [][\A p \in Captures :
       (ses[p].pc = "final_wait" /\ ses'[p].pc = "break_wait" /\ ses'[p].stop = "top")
         => /\ ses[p].newMessages = 0
            /\ captured' = captured]_vars

\* C24: the count of consecutive not-at-top iterations without cache growth
\* never exceeds 5; while it is 5 the iteration is in its bump or in the
\* boundary check after it, never back at the head of the loop; and a bump
\* whose harvest inserts a record leaves the count at 0.
C24_StuckRecoveryBounded ==
  [][\A p \in Captures :
       /\ ses'[p].noChangeCount <= 5
       /\ ses'[p].noChangeCount = 5
            => ses'[p].pc \in {"bump_wait", "bump_top_wait", "catch_top_wait"}
       /\ (ses[p].pc = "bump_wait" /\ ses'[p].pc # "dead" /\ Len(captured') > Len(captured))
            => ses'[p].noChangeCount = 0
       /\ (ses[p].pc = "bump_wait" /\ ses[p].noChangeCount = 5 /\ captured' = captured
           /\ ses'[p].pc # "dead")
            => ses'[p].pc \in {"bump_top_wait", "catch_top_wait", "done_wait1", "returned"}]_vars

\* The fifth bump in a row is under way.
C24_Witness ==
  \E p \in Captures : ses[p].pc = "bump_wait" /\ ses[p].noChangeCount = 5

\* C25: the loop is left for a run of iterations without growth only by an
\* acquisition called without untilTop; such an acquisition is never back at
\* the head of the loop with the run at maxNoNew or more.
C25_NoGrowthStopsOnlyWithoutUntilTop ==
  \A p \in Captures :
    /\ ses[p].stop = "nogrowth" => ~world.cfg.untilTop
    /\ (~ses[p].cfg.untilTop /\ (ses[p].pc = "quiet_wait" \/ (ses[p].pc = "hdr_wait" /\ ses[p].ret = "loop")))
         => ses[p].noNew < ses[p].cfg.maxNoNew

\* An acquisition called without untilTop has left the loop because the run
\* reached maxNoNew.
C25_Witness ==
  \E p \in Captures :
    ses[p].pc = "done_wait1" /\ ses[p].stop = "nogrowth" /\ ~world.cfg.untilTop

\* C26: the sequence numbers of the item records of the cache are strictly
\* increasing in insertion order, hence pairwise distinct, over the whole
\* session, a later invocation resuming on a filled cache included.
C26_SeqStrictlyIncreasing ==
  \A i, j \in 1..Len(captured) :
    (i < j /\ captured[i].key # ProfileKey /\ captured[j].key # ProfileKey)
      => captured[i].seq < captured[j].seq

\* C27: a node whose classification or cloning throws during a harvest is
\* skipped with the cache and the sequence counter unchanged for it, the other
\* nodes of the pass are harvested, and the session is not aborted.
C27_FailingNodeSkipped ==
  /\ \A d \in PageDoms(world) : \A q \in {ses[p].seq : p \in Captures} :
       \A h \in {harvest(captured, q, d, clock)} :
         /\ \A i \in 1..Len(h.captured) : Raises(h.captured[i].html) = ""
         /\ h.seq - q = Len(h.captured) - Len(captured)
         /\ \A k \in 1..countMessages(d) : \A el \in {selectVisible(d)[k]} :
              (Raises(el) = "" /\ ~isPlaceholder(el) /\ getKey(el, k - 1) # "")
                => Has(h.captured, getKey(el, k - 1))
  /\ \A p \in Captures :
       ((\E el \in world.source : Raises(el) # "") /\ ~world.faulty /\ ses[p].pc = "returned")
         => ses[p].result.ok

\* Reached: a pass over a node that throws in classification, a node that throws
\* in cloning and an item after them has inserted the item with the first
\* sequence number, and the session has returned.
C27_Witness ==
  /\ selectVisible(dom) = <<"m8", "m9", "m3">>
  /\ \E i \in 1..Len(captured) : captured[i].html = "m3" /\ captured[i].seq = 0
  /\ \A i \in 1..Len(captured) : Raises(captured[i].html) = ""
  /\ \E p \in Captures : ses[p].pc = "returned" /\ ses[p].result.ok

\* C28: a scroll or event-dispatch call that throws inside the loop, in the main
\* scroll step, in a bump or in the at-top confirmation, is caught: no session
\* returns a failure before it has left the loop.
C28_LoopThrowsCaught ==
  [][\A p \in Captures :
       (Running(p) /\ Returns(p) /\ ses'[p].stop = "") => ses'[p].result.ok]_vars

\* C29: priming harvests the newest end of the list: from the jump to the bottom
\* until the first harvest, which the session makes when it resumes from the
\* wait of the awaited header capture of line 937, the scroll position of a
\* scrollable chat is the bottom.
C29_PrimedAtBottom ==
  \A p \in Captures :
    (world.page = "chat"
       /\ (ses[p].pc = "prime_wait" \/ (ses[p].pc = "hdr_wait" /\ ses[p].ret = "init")))
      => scrollTop = 100

\* C30: after a harvest that sees at least one visible non-placeholder item, the
\* pointer it returns is a visible non-placeholder item and no visible
\* non-placeholder item has a smaller order, whether or not the harvest
\* inserted the item (of a pass in which no node throws).
C30_PointerIsTopmostVisible ==
  \A d \in PageDoms(world) : \A q \in {ses[p].seq : p \in Captures} :
    \A h \in {harvest(captured, q, d, clock)} : \A nodes \in {selectVisible(d)} :
      ((\E k \in 1..Len(nodes) : ~isPlaceholder(nodes[k]))
         /\ (\A k \in 1..Len(nodes) : Raises(nodes[k]) = ""))
        => \E t \in 1..Len(nodes) :
             /\ nodes[t] = h.topmostNewMessage
             /\ ~isPlaceholder(nodes[t])
             /\ \A k \in 1..Len(nodes) :
                  ~isPlaceholder(nodes[k])
                    => ~NumLess(getOrderFromEl(nodes[k], k - 1, clock),
                                getOrderFromEl(nodes[t], t - 1, clock))

\* C31: the observer of a quiescence wait is disconnected on both exit paths:
\* while a wait is pending exactly its own observer is connected, and once it
\* has resolved, by quiet or at its time limit, none is, after any number of
\* waits.
C31_NoLeakedObserver ==
  /\ wq.state = "pending" => wq.observers = 1
  /\ wq.state # "pending" => wq.observers = 0

\* A second wait has ended at its time limit after the observer saw a mutation,
\* and no observer is connected.
C31_Witness ==
  /\ wq.calls = 2
  /\ wq.state = "resolved"
  /\ wq.why = "timeout"
  /\ wq.seen >= 0
  /\ wq.observers = 0

\* C32: the order of an item is the timestamp of its time element when that
\* parses; else its snowflake-decoded identifier when the decoded value is not
\* before the minimum date and not after now + 1 day; else its plain numeric
\* identifier when above the threshold; else capture time + index.
C32_OrderPrecedence ==
  \A el \in world.source : \A idx \in 0..Cardinality(world.source) :
    \A a \in {Attr(el)} : \A o \in {getOrderFromEl(el, idx, clock)} :
      \A timeOk \in {a.time # NoNum} :
      \A snowOk \in {a.snow # NoNum /\ NumLess(Zero, a.snow)
                       /\ ~NumLess(DateNowPlusDay(clock), a.snow)} :
      \A litOk \in {a.lit # NoNum /\ NumLess(Year2000, a.lit)} :
        /\ timeOk => o = a.time
        /\ (~timeOk /\ snowOk) => o = a.snow
        /\ (~timeOk /\ ~snowOk /\ litOk) => o = a.lit
        /\ (~timeOk /\ ~snowOk /\ ~litOk) => o = DateNowPlus(clock, idx)

\* C32, amended: the time element's timestamp is taken when it parses to a time
\* after the epoch, and the decoded identifier when it is strictly before
\* now + 1 day; the precedence is as stated.
C32_OrderPrecedenceStrict ==
  \A el \in world.source : \A idx \in 0..Cardinality(world.source) :
    \A a \in {Attr(el)} : \A o \in {getOrderFromEl(el, idx, clock)} :
      \A timeOk \in {a.time # NoNum /\ NumLess(Zero, a.time)} :
      \A snowOk \in {a.snow # NoNum /\ NumLess(Zero, a.snow)
                       /\ NumLess(a.snow, DateNowPlusDay(clock))} :
      \A litOk \in {a.lit # NoNum /\ NumLess(Year2000, a.lit)} :
        /\ timeOk => o = a.time
        /\ (~timeOk /\ snowOk) => o = a.snow
        /\ (~timeOk /\ ~snowOk /\ litOk) => o = a.lit
        /\ (~timeOk /\ ~snowOk /\ ~litOk) => o = DateNowPlus(clock, idx)

\* Reached: one cache holds an item ordered by its time element although its
\* identifier decodes, one by its decoded identifier, one by its literal
\* identifier because the decoded value is now + 1 day, and two by the capture
\* time: one whose identifier is below the threshold and one whose time
\* element parses to a time before the epoch.
C32_Witness ==
  /\ \E i \in 1..Len(captured) : captured[i].html = "m10" /\ captured[i].order = Attr("m10").time
  /\ \E i \in 1..Len(captured) : captured[i].html = "m11" /\ captured[i].order = Attr("m11").snow
  /\ \E i \in 1..Len(captured) :
       /\ captured[i].html = "m12" /\ captured[i].order = Attr("m12").lit
       /\ Attr("m12").snow = DateNowPlusDay(clock)
  /\ \E i \in 1..Len(captured) : captured[i].html = "m13" /\ captured[i].order.hi = 3
  /\ \E i \in 1..Len(captured) : captured[i].html = "m14" /\ captured[i].order.hi = 3

\* C33: when an acquisition with a finite maxMessages returns ok, the cache
\* holds no more than maxMessages records and the count returned is no more
\* than maxMessages.  Stated of the item records alone, leaving the header
\* record out of both counts.
C33_LimitKept ==
  [][\A p \in Captures :
       (Returns(p) /\ ses'[p].result.ok /\ world.cfg.maxMessages > 0) =>
         /\ Cardinality({i \in 1..Len(captured') : captured'[i].key # ProfileKey})
              <= world.cfg.maxMessages
         /\ ses'[p].result.loaded
              - Cardinality({i \in 1..Len(records') : records'[i].key = ProfileKey})
              <= world.cfg.maxMessages]_vars

\* C34: after a merge that returns ok, the header is at most once among the
\* children of the container, also when the record list holds a header record
\* and the merge finds a header on the page.
C34_HeaderAtMostOnce ==
  [][\A p \in Captures : MergeReturnsOk(p) => Count(dom', Header) <= 1]_vars

\* C35: in every result of a merge that returns ok, the inserted count is at
\* most the total record count.
C35_InsertedAtMostTotal ==
  [][\A p \in Captures :
       MergeReturnsOk(p) => orch'[p].mergeRes.inserted <= orch'[p].mergeRes.totalMessages]_vars

\* C36: a merge that runs while the cache holds no records returns ok:false
\* with inserted 0 and leaves the children of the container as they were.
C36_EmptyCacheMergeTouchesNothing ==
  [][\A p \in Captures :
       (MergeRuns(p) /\ captured = <<>>) =>
         /\ ~orch'[p].mergeRes.ok
         /\ orch'[p].mergeRes.inserted = 0
         /\ dom' = dom]_vars

\* Reached: a merge has run on a chat page with an empty cache and mounted
\* children, and has failed.
C36_Witness ==
  \E p \in Captures :
    /\ orch[p].pc = "merge"
    /\ ~orch[p].mergeRes.ok
    /\ alive = "doc"
    /\ world.page = "chat"
    /\ captured = <<>>
    /\ dom # <<>>

\* C37: when every acquisition that was started in the document has returned,
\* on whatever path, console.log is the page's own function again, also after
\* overlapping acquisitions.
C37_ConsoleLogRestored ==
  (alive = "doc" /\ \A p \in Captures : ~Running(p)) => consoleLog = OriginalLog

\* C38: once the tab is closed or shows another document during a capture, in
\* the scroll phase, the merge phase or between them, the capture goes on to
\* neither the transcript fallback nor a download.
C38_AbortOnTabLoss ==
  [][\A p \in Captures :
       (alive # "doc" /\ orch'[p] # orch[p])
         => orch'[p].outcome \notin {"fallback", "exported"}]_vars

\* C39: when a media toggle is set and captureChatHistory stripped the page,
\* then after the download and the restore step the src, srcset and type of
\* the img and source elements are what they were before the stripping.
C39_MediaRestored ==
  (media.pc = "done" /\ media.didStrip) =>
    \A e \in {"img", "source"} :
      /\ media.page[e].src = media.before[e].src
      /\ media.page[e].srcset = media.before[e].srcset
      /\ media.page[e].type = media.before[e].type
====
